---------------------------- MODULE Spec2Model ----------------------------
(***************************************************************************)
(* Model of webui/callbacks/report_callbacks.py: the Dash callbacks that   *)
(* render the per-symbol report views from the shared app_state.           *)
(*                                                                         *)
(* Conventions.                                                            *)
(*   - A Python Optional is a sequence of length <= 1: None is <<>> and a  *)
(*     present value v is <<v>>.                                           *)
(*   - A Python str is a sequence of atoms (TLA+ strings).  The atoms " "  *)
(*     and "\n" are whitespace; every other atom is a run of non-space     *)
(*     characters (string literals of the source are one atom each;        *)
(*     emoji of the source are written as :shortcodes:).                   *)
(*   - A Python dict that is iterated (symbol_states) is the sequence of   *)
(*     its items in insertion order.                                       *)
(*   - ret is the record of the callback invocation that was the last      *)
(*     step: its arguments, its return value, and what it touched.         *)
(***************************************************************************)
EXTENDS Integers, Sequences, FiniteSets

(* ------------------------------ bounds -------------------------------- *)

\* The registry holds at most MaxSymbols symbols.
MaxSymbols == 2

\* At most MaxFilled fields of a symbol's state differ from their initial
\* value (bounds the producer pipeline in SpecReports).
MaxFilled == 2

(* ------------------------- Python value helpers ----------------------- *)

None == <<>>

Some(v) == <<v>>

Val(o) == o[1]

\* Python truthiness of an Optional[str]: None and "" are falsy.
Truthy(o) == o # None /\ Val(o) # <<>>

IsSpace(a) == a \in {" ", "\n"}

RECURSIVE LStrip(_)
LStrip(s) == IF s # <<>> /\ IsSpace(Head(s)) THEN LStrip(Tail(s)) ELSE s

RECURSIVE RStrip(_)
RStrip(s) ==
    IF s # <<>> /\ IsSpace(s[Len(s)]) THEN RStrip(SubSeq(s, 1, Len(s) - 1)) ELSE s

\* str.strip()
Strip(s) == RStrip(LStrip(s))

\* s.split('\n')[-1]: the part of s after its last newline.
RECURSIVE LastLine(_)
LastLine(s) ==
    IF s = <<>> THEN <<>>
    ELSE IF s[Len(s)] = "\n" THEN <<>>
    ELSE LastLine(SubSeq(s, 1, Len(s) - 1)) \o <<s[Len(s)]>>

\* s.split('.')[0]: the part of s before its first dot.
RECURSIVE BeforeDot(_)
BeforeDot(s) ==
    IF s = <<>> THEN <<>>
    ELSE IF Head(s) = "." THEN <<>>
    ELSE <<Head(s)>> \o BeforeDot(Tail(s))

\* Python list subscript lst[k] with k from 0; a negative k counts from the
\* end; outside -len..len-1 it raises IndexError.
PyIndexOK(lst, k) == k >= 0 - Len(lst) /\ k < Len(lst)

PyIndex(lst, k) == IF k >= 0 THEN lst[k + 1] ELSE lst[Len(lst) + k + 1]

\* ", ".join(lst)
RECURSIVE Join(_)
Join(lst) ==
    IF lst = <<>> THEN <<>>
    ELSE IF Len(lst) = 1 THEN <<lst[1]>>
    ELSE <<lst[1], ", ">> \o Join(Tail(lst))

(* ------------------------------ the store ----------------------------- *)

SymbolPool == <<"AAPL", "MSFT", "NVDA", "TSLA">>

Symbols == {SymbolPool[i] : i \in 1..MaxSymbols}

AnalystReportTypes ==
    <<"market_report", "sentiment_report", "news_report",
      "fundamentals_report", "macro_report">>

ReportKeys ==
    {AnalystReportTypes[i] : i \in 1..Len(AnalystReportTypes)}
        \cup {"research_manager_report", "trader_investment_plan",
              "final_trade_decision"}

Analysts ==
    {"Market Analyst", "Social Analyst", "News Analyst",
     "Fundamentals Analyst", "Macro Analyst"}

Statuses == {"pending", "in_progress", "completed"}

\* Report texts the pipeline may write: empty, whitespace only, real text.
Texts == {<<>>, <<" ">>, <<"x">>}

\* Risk-debate histories: empty, one line, two lines, a trailing newline.
HistoryTexts == {<<>>, <<"a">>, <<"a", "\n", "b">>, <<"a", "\n">>}

\* analysis_results dicts: {}, {"decision": ...}, {"decision": ..., "date": ...}
ResultDicts ==
    {[decision |-> None, date |-> None],
     [decision |-> Some("BUY"), date |-> None],
     [decision |-> Some("BUY"), date |-> Some("2024-01-01")]}

ActionTexts == {<<>>, <<"BUY">>}

\* The per-symbol state as the pipeline creates it.
InitState(s) ==
    [ticker_symbol |-> s,
     current_reports |-> [k \in ReportKeys |-> None],
     agent_statuses |-> [a \in Analysts |-> None],
     analysis_complete |-> FALSE,
     analysis_results |-> None,
     recommended_action |-> None,
     risk_history |-> None]

\* Number of fields of a state that differ from InitState.
Filled(st) ==
    Cardinality({k \in ReportKeys : st.current_reports[k] # None})
    + Cardinality({a \in Analysts : st.agent_statuses[a] # None})
    + (IF st.analysis_complete THEN 1 ELSE 0)
    + (IF st.analysis_results # None THEN 1 ELSE 0)
    + (IF st.recommended_action # None THEN 1 ELSE 0)
    + (IF st.risk_history # None THEN 1 ELSE 0)

VARIABLES
    symbol_states,   \* app_state.symbol_states: items [key, value] in order
    current_symbol,  \* app_state.current_symbol (Optional)
    report_page,     \* report-pagination.active_page (Optional int)
    ret,             \* the callback invocation of the last step
    last_click       \* history: the click last accepted (its index and the
                     \* buttons it rendered), while the registry's keys and
                     \* order are still those it read; None otherwise

vars == <<symbol_states, current_symbol, report_page, ret, last_click>>

\* list(app_state.symbol_states.keys())
Keys(d) == [i \in 1..Len(d) |-> d[i].key]

KeySet(d) == {d[i].key : i \in 1..Len(d)}

\* app_state.get_state(symbol): the state registered for symbol, or None.
get_state(d, symbol) ==
    IF \E i \in 1..Len(d) : d[i].key = symbol
    THEN (CHOOSE it \in {d[i] : i \in 1..Len(d)} : it.key = symbol).value
    ELSE None

\* The record of a step that is no callback of this module.
Idle ==
    [op |-> "none", page |-> None, clicks |-> <<>>, triggered |-> <<>>,
     verdict |-> "none", raised |-> FALSE, index |-> None, symbol |-> None,
     calls |-> {}, validated |-> {}, wrote |-> FALSE, out |-> <<>>]

\* The record of a callback invocation.
Call(op, page) == [Idle EXCEPT !.op = op, !.page = page]

(* --------------------------- rendered components ---------------------- *)

DefaultMessage == <<"No content available yet.">>

\* create_markdown_content(content, default_message): the Markdown component
\* and the text it shows.
create_markdown_content(content, default_message) ==
    [type |-> "Markdown",
     children |-> IF content = <<>> \/ Strip(content) = <<>>
                  THEN default_message ELSE content]

\* create_symbol_button(symbol, index, is_active)
create_symbol_button(symbol, index, is_active) ==
    [symbol |-> symbol, index |-> index, active |-> is_active]


\* html.Iframe(srcDoc=debate_html, ...)
Iframe(debate_html) == [type |-> "Iframe", children |-> debate_html]

\* render_researcher_debate(symbol): the debate view of symbol, as HTML.
render_researcher_debate(symbol) == <<"<researcher-debate>", symbol>>

\* render_risk_debate(symbol): the risk-debate view of symbol, as HTML.
render_risk_debate(symbol) == <<"<risk-debate>", symbol>>

(* ----------------------- page -> symbol resolution -------------------- *)

OutOfRangeMessage ==
    <<"Page index out of range. Please refresh or restart analysis.">>

\* ResolvePage with the range check off by one (active_page - 1 > len).
ResolvePage_OffByOne(d, active_page) ==
    LET symbols_list == Keys(d) IN
    IF d = <<>> \/ active_page = None \/ Val(active_page) = 0
    THEN [stage |-> "none", index |-> None, symbol |-> None]
    ELSE IF Val(active_page) - 1 > Len(symbols_list)
    THEN [stage |-> "out_of_range", index |-> None, symbol |-> None]
    ELSE IF PyIndexOK(symbols_list, Val(active_page) - 1)
    THEN [stage |-> "ok", index |-> Some(Val(active_page) - 1),
          symbol |-> Some(PyIndex(symbols_list, Val(active_page) - 1))]
    ELSE [stage |-> "raise", index |-> Some(Val(active_page) - 1),
          symbol |-> None]

\* The first lines of every page-driven composer:
\*     if not app_state.symbol_states or not active_page: return <nothing yet>
\*     symbols_list = list(app_state.symbol_states.keys())
\*     if active_page > len(symbols_list): return <out of range>
\*     symbol = symbols_list[active_page - 1]
\* stage is "none", "out_of_range", "raise" (IndexError) or "ok"; index is
\* the subscript applied to symbols_list, if one was.
ResolvePage(d, active_page) ==
    LET symbols_list == Keys(d) IN
    IF d = <<>> \/ active_page = None \/ Val(active_page) = 0
    THEN [stage |-> "none", index |-> None, symbol |-> None]
    ELSE IF Val(active_page) > Len(symbols_list)
    THEN [stage |-> "out_of_range", index |-> None, symbol |-> None]
    ELSE IF PyIndexOK(symbols_list, Val(active_page) - 1)
    THEN [stage |-> "ok", index |-> Some(Val(active_page) - 1),
          symbol |-> Some(PyIndex(symbols_list, Val(active_page) - 1))]
    ELSE [stage |-> "raise", index |-> Some(Val(active_page) - 1),
          symbol |-> None]

\* The invocation record of a composer after the resolution r.
Resolved(op, active_page, r) ==
    [Call(op, active_page) EXCEPT
        !.raised = (r.stage = "raise"), !.index = r.index, !.symbol = r.symbol]

(* ------------------------------ composers ----------------------------- *)

update_researcher_debate ==
    LET r == ResolvePage(symbol_states, report_page)
        c == Resolved("update_researcher_debate", report_page, r)
    IN  /\ ret' =
            CASE r.stage = "none" ->
                    [c EXCEPT !.out = <<create_markdown_content(
                        <<>>, <<"No researcher debate available yet.">>)>>]
              [] r.stage = "out_of_range" ->
                    [c EXCEPT !.out =
                        <<create_markdown_content(<<>>, OutOfRangeMessage)>>]
              [] r.stage = "raise" -> c
              [] OTHER ->
                    [c EXCEPT !.calls = {"render_researcher_debate"},
                              !.out = <<Iframe(
                                  render_researcher_debate(Val(r.symbol)))>>]
        /\ UNCHANGED <<symbol_states, current_symbol, report_page, last_click>>

update_risk_debate ==
    LET r == ResolvePage(symbol_states, report_page)
        c == Resolved("update_risk_debate", report_page, r)
    IN  /\ ret' =
            CASE r.stage = "none" ->
                    [c EXCEPT !.out = <<create_markdown_content(
                        <<>>, <<"No risk debate available yet.">>)>>]
              [] r.stage = "out_of_range" ->
                    [c EXCEPT !.out =
                        <<create_markdown_content(<<>>, OutOfRangeMessage)>>]
              [] r.stage = "raise" -> c
              [] OTHER ->
                    [c EXCEPT !.calls = {"render_risk_debate"},
                              !.out = <<Iframe(
                                  render_risk_debate(Val(r.symbol)))>>]
        /\ UNCHANGED <<symbol_states, current_symbol, report_page, last_click>>

update_report_display_text ==
    LET r == ResolvePage(symbol_states, report_page)
        c == Resolved("update_report_display_text", report_page, r)
    IN  /\ ret' =
            CASE r.stage = "none" -> [c EXCEPT !.out = << <<>> >>]
              [] r.stage = "out_of_range" ->
                    [c EXCEPT !.out = << <<"Invalid page">> >>]
              [] r.stage = "raise" -> c
              [] OTHER ->
                    [c EXCEPT !.out = << <<":bar_chart: ", Val(r.symbol)>> >>]
        /\ UNCHANGED <<symbol_states, current_symbol, report_page, last_click>>

(* --------------------------- update_tabs_content ---------------------- *)

\* Number of outputs of update_tabs_content (its Output list).
TabCount == 8

\* report_type.replace('_', ' ').title()
Title(report_type) ==
    CASE report_type = "market_report" -> "Market Report"
      [] report_type = "sentiment_report" -> "Sentiment Report"
      [] report_type = "news_report" -> "News Report"
      [] report_type = "fundamentals_report" -> "Fundamentals Report"
      [] report_type = "macro_report" -> "Macro Report"

\* analyst_status_map: the analyst whose status decides a report type.
AnalystOf(report_type) ==
    CASE report_type = "market_report" -> "Market Analyst"
      [] report_type = "sentiment_report" -> "Social Analyst"
      [] report_type = "news_report" -> "News Analyst"
      [] report_type = "fundamentals_report" -> "Fundamentals Analyst"
      [] report_type = "macro_report" -> "Macro Analyst"

\* What the external validator may decide about a report.
Verdicts == {"complete", "incomplete"}

\* validate_reports_for_ui({report_type: content})[report_type]: the content
\* when the validator finds it complete, a notice of its own otherwise.
validate_reports_for_ui(report_type, content, verdict) ==
    IF verdict = "complete" THEN content
    ELSE <<":hourglass: ", Title(report_type), " is still being written">>

\* SlotBranch with the content validation ahead of the status checks.
SlotBranch_ValidateFirst(status, content) ==
    IF Truthy(content) THEN "validate"
    ELSE IF status = Some("in_progress") THEN "in_progress"
    ELSE IF status = Some("pending") THEN "pending"
    ELSE "missing"

\* SlotBranch showing whatever content there is once the analyst started.
SlotBranch_ContentWins(status, content) ==
    IF status \in {Some("completed"), Some("in_progress")} /\ Truthy(content)
    THEN "completed"
    ELSE IF status = Some("in_progress") THEN "in_progress"
    ELSE IF status = Some("pending") THEN "pending"
    ELSE IF Truthy(content) THEN "validate"
    ELSE "missing"

\* Which branch of the status/content cascade a slot takes.
SlotBranch(status, content) ==
    IF status = Some("completed") /\ Truthy(content) THEN "completed"
    ELSE IF status = Some("in_progress") THEN "in_progress"
    ELSE IF status = Some("pending") THEN "pending"
    ELSE IF Truthy(content) THEN "validate"
    ELSE "missing"

\* validated_reports[report_type] as the loop over analyst_reports sets it.
SlotText(report_type, status, content, verdict) ==
    LET b == SlotBranch(status, content) IN
    CASE b = "completed" -> Val(content)
      [] b = "in_progress" ->
            <<":arrows_counterclockwise: ", Title(report_type),
              " - Analysis in progress...">>
      [] b = "pending" ->
            <<":hourglass_flowing_sand: ", Title(report_type),
              " - Waiting to start...">>
      [] b = "validate" ->
            validate_reports_for_ui(report_type, Val(content), verdict)
      [] OTHER -> <<"No ", Title(report_type), " available yet.">>

\* reports.get(key) or fallback
OrElse(o, fallback) == IF Truthy(o) THEN Val(o) ELSE fallback

\* The eight components update_tabs_content returns for a state.
TabsOf(state, verdict) ==
    LET reports == state.current_reports
        validated_reports ==
            [t \in {AnalystReportTypes[i] : i \in 1..Len(AnalystReportTypes)} |->
                SlotText(t, state.agent_statuses[AnalystOf(t)], reports[t],
                         verdict)]
        research_manager_report ==
            OrElse(reports["research_manager_report"],
                   <<"No research manager decision available yet.">>)
        trader_report ==
            OrElse(reports["trader_investment_plan"],
                   <<"No trader report available yet.">>)
        portfolio_report ==
            OrElse(reports["final_trade_decision"],
                   <<"No final decision available yet.">>)
    IN  <<create_markdown_content(validated_reports["market_report"],
                                  DefaultMessage),
          create_markdown_content(validated_reports["sentiment_report"],
                                  DefaultMessage),
          create_markdown_content(validated_reports["news_report"],
                                  DefaultMessage),
          create_markdown_content(validated_reports["fundamentals_report"],
                                  DefaultMessage),
          create_markdown_content(validated_reports["macro_report"],
                                  DefaultMessage),
          create_markdown_content(research_manager_report, DefaultMessage),
          create_markdown_content(trader_report, DefaultMessage),
          create_markdown_content(portfolio_report, DefaultMessage)>>

\* The report types whose content is handed to the validator.
ValidatedOf(state) ==
    {t \in {AnalystReportTypes[i] : i \in 1..Len(AnalystReportTypes)} :
        SlotBranch(state.agent_statuses[AnalystOf(t)],
                   state.current_reports[t]) = "validate"}

\* [component] * 8
Times8(component) == [i \in 1..TabCount |-> component]

update_tabs_content(verdict) ==
    LET r == ResolvePage(symbol_states, report_page)
        c == [Resolved("update_tabs_content", report_page, r) EXCEPT
                !.verdict = verdict]
        state == get_state(symbol_states, Val(r.symbol))
    IN  /\ ret' =
            CASE r.stage = "none" ->
                    [c EXCEPT !.out = Times8(create_markdown_content(
                        <<>>, <<"No analysis available yet.">>))]
              [] r.stage = "out_of_range" ->
                    [c EXCEPT !.out = Times8(create_markdown_content(
                        <<>>, OutOfRangeMessage))]
              [] r.stage = "raise" -> c
              [] OTHER ->
                    IF state = None
                    THEN [c EXCEPT !.calls = {"get_state"},
                                   !.out = Times8(create_markdown_content(
                                       <<>>, <<"No data for this symbol.">>))]
                    ELSE [c EXCEPT !.calls = {"get_state"},
                                   !.validated = ValidatedOf(Val(state)),
                                   !.out = TabsOf(Val(state), verdict)]
        /\ UNCHANGED <<symbol_states, current_symbol, report_page, last_click>>

(* ------------------------- update_decision_summary -------------------- *)

NotCompleteMessage == <<"Analysis not complete yet.">>

\* Truthiness of the analysis_results dict: None and {} are falsy.
HasResults(state) ==
    /\ state.analysis_results # None
    /\ Val(state.analysis_results) # [decision |-> None, date |-> None]

\* dict.get(key, default) on a present/absent value
GetOr(o, default) == IF o = None THEN default ELSE Val(o)

\* IsComplete without the analysis_complete flag: the report alone decides.
IsComplete_IgnoresFlag(state) ==
    state.current_reports["final_trade_decision"] # None

\* state.get("analysis_complete") and final_report_content is not None
IsComplete(state) ==
    state.analysis_complete /\ state.current_reports["final_trade_decision"] # None

\* The branch taken when the state is confirmed complete.
FinalDecisionText(state) ==
    LET final_report_content == state.current_reports["final_trade_decision"] IN
    IF HasResults(state)
    THEN <<"## Final Decision for ", state.ticker_symbol, "\n", "\n",
           "**Trade Action:** ",
           GetOr(Val(state.analysis_results).decision, "No decision"),
           "\n", "\n",
           "**Date:** ", GetOr(Val(state.analysis_results).date, "N/A")>>
    ELSE <<"## Final Decision for ", state.ticker_symbol, "\n", "\n">>
         \o (IF Truthy(state.recommended_action)
             THEN <<"**:chart_with_upwards_trend: RECOMMENDED ACTION: ">>
                  \o Val(state.recommended_action) \o <<"**", "\n", "\n">>
             ELSE <<>>)
         \o <<"**Full Analysis:**", "\n">>
         \o Val(final_report_content)

\* One entry of available_reports: the name when the condition holds.
Avail(cond, name) == IF cond THEN <<name>> ELSE <<>>

\* AvailableReports with the final report tested for content, like the rest.
AvailableReports_FinalTruthy(state) ==
    LET reports == state.current_reports IN
    Avail(Truthy(reports["market_report"]), "Market Analysis")
    \o Avail(Truthy(reports["sentiment_report"]), "Social Media Sentiment")
    \o Avail(Truthy(reports["news_report"]), "News Analysis")
    \o Avail(Truthy(reports["fundamentals_report"]), "Fundamentals Analysis")
    \o Avail(Truthy(reports["macro_report"]), "Macro Analysis")
    \o Avail(Truthy(reports["research_manager_report"]),
             "Research Manager Decision")
    \o Avail(Truthy(reports["trader_investment_plan"]),
             "Trader Investment Plan")
    \o Avail(Truthy(state.risk_history), "Risk Debate")
    \o Avail(Truthy(reports["final_trade_decision"]),
             "Portfolio Manager Final Decision")

\* available_reports, in the order the source appends to it.
AvailableReports(state) ==
    LET reports == state.current_reports IN
    Avail(Truthy(reports["market_report"]), "Market Analysis")
    \o Avail(Truthy(reports["sentiment_report"]), "Social Media Sentiment")
    \o Avail(Truthy(reports["news_report"]), "News Analysis")
    \o Avail(Truthy(reports["fundamentals_report"]), "Fundamentals Analysis")
    \o Avail(Truthy(reports["macro_report"]), "Macro Analysis")
    \o Avail(Truthy(reports["research_manager_report"]),
             "Research Manager Decision")
    \o Avail(Truthy(reports["trader_investment_plan"]),
             "Trader Investment Plan")
    \o Avail(Truthy(state.risk_history), "Risk Debate")
    \o Avail(reports["final_trade_decision"] # None,
             "Portfolio Manager Final Decision")

\* risk_debate_latest: the last line of a non-empty risk-debate history.
RiskDebateLatest(state) ==
    IF Truthy(state.risk_history) THEN LastLine(Val(state.risk_history))
    ELSE <<>>

\* CurrentDecision with the trader plan ahead of the risk debate.
CurrentDecision_TraderFirst(state) ==
    LET reports == state.current_reports IN
    IF Truthy(reports["final_trade_decision"])
    THEN reports["final_trade_decision"]
    ELSE IF Truthy(reports["trader_investment_plan"])
    THEN reports["trader_investment_plan"]
    ELSE IF RiskDebateLatest(state) # <<>> THEN Some(RiskDebateLatest(state))
    ELSE reports["research_manager_report"]

\* final_report_content or risk_debate_latest or trader plan or research
\* manager report: the first truthy one, else the last operand.
CurrentDecision(state) ==
    LET reports == state.current_reports IN
    IF Truthy(reports["final_trade_decision"])
    THEN reports["final_trade_decision"]
    ELSE IF RiskDebateLatest(state) # <<>> THEN Some(RiskDebateLatest(state))
    ELSE IF Truthy(reports["trader_investment_plan"])
    THEN reports["trader_investment_plan"]
    ELSE reports["research_manager_report"]

\* The branch taken when the state is not confirmed complete.
PartialText(state) ==
    IF AvailableReports(state) # <<>>
    THEN <<"## Partial Analysis for ", state.ticker_symbol, "\n", "\n",
           "**Completed Reports:** ">>
         \o Join(AvailableReports(state)) \o <<"\n", "\n">>
         \o (IF Truthy(CurrentDecision(state))
             THEN <<"**Current Decision:** Based on completed analysis",
                    "\n", "\n">> \o Val(CurrentDecision(state))
             ELSE <<>>)
    ELSE NotCompleteMessage

\* decision_text for a state.
DecisionText(state) ==
    IF IsComplete(state) THEN FinalDecisionText(state) ELSE PartialText(state)

update_decision_summary ==
    LET r == ResolvePage(symbol_states, report_page)
        c == Resolved("update_decision_summary", report_page, r)
        state == get_state(symbol_states, Val(r.symbol))
    IN  /\ ret' =
            CASE r.stage = "none" -> [c EXCEPT !.out = <<NotCompleteMessage>>]
              [] r.stage = "out_of_range" ->
                    [c EXCEPT !.out = <<OutOfRangeMessage>>]
              [] r.stage = "raise" -> c
              [] OTHER ->
                    IF state = None
                    THEN [c EXCEPT !.calls = {"get_state"},
                                   !.out = << <<"No data for this symbol.">> >>]
                    ELSE [c EXCEPT !.calls = {"get_state"},
                                   !.out = <<DecisionText(Val(state))>>]
        /\ UNCHANGED <<symbol_states, current_symbol, report_page, last_click>>

(* ------------------------- symbol pagination -------------------------- *)

\* The decimal numerals of the indices and counts and the integers they denote.
Numerals ==
    {<<"-1", 0 - 1>>, <<"0", 0>>, <<"1", 1>>, <<"2", 2>>, <<"3", 3>>,
     <<"4", 4>>}

IntStr(i) == (CHOOSE n \in Numerals : n[2] = i)[1]

ParseInt(str) == (CHOOSE n \in Numerals : n[1] = str)[2]

\* ButtonContainer taking the 1-based page for the 0-based active index.
ButtonContainer_ActiveByPage(symbols, active_index) ==
    LET buttons ==
            [i \in 1..Len(symbols) |->
                create_symbol_button(symbols[i], i - 1, i = active_index)]
    IN  IF Len(symbols) > 1
        THEN [type |-> "symbol-pagination-wrapper", buttons |-> buttons,
              info |-> <<"Showing ", IntStr(Len(symbols)), " symbols">>]
        ELSE [type |-> "ButtonGroup", buttons |-> buttons, info |-> <<>>]

\* The button row both pagination callbacks build:
\*     for i, symbol in enumerate(symbols):
\*         buttons.append(create_symbol_button(symbol, i, i == active_index))
\* wrapped with the "Showing N symbols" note when there are several symbols.
ButtonContainer(symbols, active_index) ==
    LET buttons ==
            [i \in 1..Len(symbols) |->
                create_symbol_button(symbols[i], i - 1, i - 1 = active_index)]
    IN  IF Len(symbols) > 1
        THEN [type |-> "symbol-pagination-wrapper", buttons |-> buttons,
              info |-> <<"Showing ", IntStr(Len(symbols)), " symbols">>]
        ELSE [type |-> "ButtonGroup", buttons |-> buttons, info |-> <<>>]

\* IndexOf counting from 1, like the page numbers.
IndexOf_FromOne(symbols, s) == CHOOSE i \in 1..Len(symbols) : symbols[i] = s

\* symbols.index(current_symbol), from 0
IndexOf(symbols, s) == (CHOOSE i \in 1..Len(symbols) : symbols[i] = s) - 1

update_report_symbol_pagination ==
    LET symbols == Keys(symbol_states)
        active_index ==
            IF current_symbol # None
               /\ \E i \in 1..Len(symbols) : symbols[i] = Val(current_symbol)
            THEN IndexOf(symbols, Val(current_symbol))
            ELSE 0
        c == Call("update_report_symbol_pagination", None)
    IN  /\ ret' =
            IF symbol_states = <<>>
            THEN [c EXCEPT !.out =
                    <<[type |-> "Div", buttons |-> <<>>,
                       info |-> <<"No symbols available">>]>>]
            ELSE [c EXCEPT !.out = <<ButtonContainer(symbols, active_index)>>]
        /\ UNCHANGED <<symbol_states, current_symbol, report_page, last_click>>

\* dash.no_update, and a value returned for an output
NoUpdate == [kind |-> "no_update", value |-> <<>>]

Update(v) == [kind |-> "value", value |-> <<v>>]

\* The prop_id of a pattern-matching button, as ctx.triggered reports it:
\* the JSON text of the button's id, a dot, and the property.
ButtonPropId(type, index) ==
    <<"{index:", IntStr(index), ",type:", type, "}", ".", "n_clicks">>

\* "symbol-btn" in button_id
MentionsSymbolBtn(button_id) ==
    \E i \in 1..Len(button_id) : button_id[i] = "symbol-btn"

\* json.loads(button_id.split('.')[0])["index"]
ClickedIndex(button_id) == ParseInt(BeforeDot(button_id)[2])

\* any(symbol_clicks): some count is neither None nor 0.
AnyClicks(symbol_clicks) ==
    \E i \in 1..Len(symbol_clicks) :
        symbol_clicks[i] # None /\ Val(symbol_clicks[i]) # 0

\* AcceptsClick without the any(symbol_clicks) guard.
AcceptsClick_NoAnyCheck(d, symbol_clicks, triggered) ==
    /\ triggered # <<>>
    /\ MentionsSymbolBtn(Val(triggered))
    /\ 0 <= ClickedIndex(Val(triggered))
    /\ ClickedIndex(Val(triggered)) < Len(d)

\* Whether handle_report_symbol_click accepts the event: the index it
\* extracts, when it gets that far and the index is within the registry.
AcceptsClick(d, symbol_clicks, triggered) ==
    /\ AnyClicks(symbol_clicks)
    /\ triggered # <<>>
    /\ MentionsSymbolBtn(Val(triggered))
    /\ 0 <= ClickedIndex(Val(triggered))
    /\ ClickedIndex(Val(triggered)) < Len(d)

handle_report_symbol_click(symbol_clicks, triggered) ==
    LET c == [Call("handle_report_symbol_click", None) EXCEPT
                !.clicks = symbol_clicks, !.triggered = triggered]
        symbols == Keys(symbol_states)
    IN  IF AcceptsClick(symbol_states, symbol_clicks, triggered)
        THEN LET clicked_index == ClickedIndex(Val(triggered))
                 page_number == clicked_index + 1
             IN  /\ current_symbol' = Some(symbols[clicked_index + 1])
                 /\ report_page' = Some(page_number)
                 /\ ret' = [c EXCEPT
                        !.index = Some(clicked_index),
                        !.symbol = Some(symbols[clicked_index + 1]),
                        !.wrote = TRUE,
                        !.out = <<Update(page_number), Update(page_number),
                                  Update(ButtonContainer(symbols,
                                                         clicked_index))>>]
                 /\ last_click' =
                        Some([index |-> clicked_index,
                              container |-> ButtonContainer(symbols,
                                                            clicked_index)])
                 /\ UNCHANGED symbol_states
        ELSE /\ ret' = [c EXCEPT !.out = <<NoUpdate, NoUpdate, NoUpdate>>]
             /\ UNCHANGED <<symbol_states, current_symbol, report_page, last_click>>

(* ------------------------------- switch_tab --------------------------- *)

\* tab_mapping with a tab of its own for the conservative risk link.
tab_mapping_get_SplitRisk(trigger_id) ==
    CASE trigger_id = <<"nav-market">> -> "market-analysis"
      [] trigger_id = <<"nav-social">> -> "social-sentiment"
      [] trigger_id = <<"nav-news">> -> "news-analysis"
      [] trigger_id = <<"nav-fundamentals">> -> "fundamentals-analysis"
      [] trigger_id = <<"nav-researcher">> -> "researcher-debate"
      [] trigger_id = <<"nav-research-mgr">> -> "research-manager"
      [] trigger_id = <<"nav-trader">> -> "trader-plan"
      [] trigger_id = <<"nav-risk-agg">> -> "risk-debate"
      [] trigger_id = <<"nav-risk-cons">> -> "risk-conservative"
      [] trigger_id = <<"nav-risk-neut">> -> "risk-debate"
      [] trigger_id = <<"nav-final">> -> "final-decision"
      [] OTHER -> "market-analysis"

\* tab_mapping.get(trigger_id, "market-analysis")
tab_mapping_get(trigger_id) ==
    CASE trigger_id = <<"nav-market">> -> "market-analysis"
      [] trigger_id = <<"nav-social">> -> "social-sentiment"
      [] trigger_id = <<"nav-news">> -> "news-analysis"
      [] trigger_id = <<"nav-fundamentals">> -> "fundamentals-analysis"
      [] trigger_id = <<"nav-researcher">> -> "researcher-debate"
      [] trigger_id = <<"nav-research-mgr">> -> "research-manager"
      [] trigger_id = <<"nav-trader">> -> "trader-plan"
      [] trigger_id = <<"nav-risk-agg">> -> "risk-debate"
      [] trigger_id = <<"nav-risk-cons">> -> "risk-debate"
      [] trigger_id = <<"nav-risk-neut">> -> "risk-debate"
      [] trigger_id = <<"nav-final">> -> "final-decision"
      [] OTHER -> "market-analysis"

switch_tab(triggered) ==
    /\ ret' = [Call("switch_tab", None) EXCEPT
                !.triggered = triggered,
                !.out = IF triggered = <<>> THEN <<"market-analysis">>
                        ELSE <<tab_mapping_get(BeforeDot(Val(triggered)))>>]
    /\ UNCHANGED <<symbol_states, current_symbol, report_page, last_click>>

(* ------------------ the environment: pipeline and browser ------------- *)

\* The analysis pipeline registers a symbol, with its state or before the
\* state exists.
AddSymbol(s, value) ==
    /\ Len(symbol_states) < MaxSymbols
    /\ s \notin KeySet(symbol_states)
    /\ symbol_states' = Append(symbol_states, [key |-> s, value |-> value])
    /\ ret' = Idle
    /\ last_click' = None
    /\ UNCHANGED <<current_symbol, report_page>>

\* The pipeline drops a symbol (a restarted analysis): the registry shrinks.
RemoveSymbol(s) ==
    /\ s \in KeySet(symbol_states)
    /\ symbol_states' =
            SelectSeq(symbol_states, LAMBDA it : it.key # s)
    /\ ret' = Idle
    /\ last_click' = None
    /\ UNCHANGED <<current_symbol, report_page>>

\* The values the browser or another callback may give active_page.
PageInputs == {None} \cup {Some(p) : p \in (0 - 1)..(MaxSymbols + 1)}

\* report-pagination.active_page is set outside this module.
SetPage(p) ==
    /\ p # report_page
    /\ report_page' = p
    /\ ret' = Idle
    /\ UNCHANGED <<symbol_states, current_symbol, last_click>>

\* The pipeline replaces the state of symbol s by st.
PutState(s, st) ==
    /\ \E i \in 1..Len(symbol_states) :
          symbol_states[i].key = s /\ symbol_states[i].value # None
    /\ Filled(st) <= MaxFilled
    /\ Some(st) # get_state(symbol_states, s)
    /\ symbol_states' =
            [i \in 1..Len(symbol_states) |->
                IF symbol_states[i].key = s
                THEN [key |-> s, value |-> Some(st)]
                ELSE symbol_states[i]]
    /\ ret' = Idle
    /\ UNCHANGED <<current_symbol, report_page, last_click>>

StateOf(s) == Val(get_state(symbol_states, s))

HasState(s) == get_state(symbol_states, s) # None

WriteReport(s, k, text) ==
    /\ HasState(s)
    /\ PutState(s, [StateOf(s) EXCEPT !.current_reports[k] = Some(text)])

SetStatus(s, a, status) ==
    /\ HasState(s)
    /\ PutState(s, [StateOf(s) EXCEPT !.agent_statuses[a] = Some(status)])

SetComplete(s) ==
    /\ HasState(s)
    /\ PutState(s, [StateOf(s) EXCEPT !.analysis_complete = TRUE])

SetResults(s, results) ==
    /\ HasState(s)
    /\ PutState(s, [StateOf(s) EXCEPT !.analysis_results = Some(results)])

SetRecommended(s, text) ==
    /\ HasState(s)
    /\ PutState(s, [StateOf(s) EXCEPT !.recommended_action = Some(text)])

WriteHistory(s, text) ==
    /\ HasState(s)
    /\ PutState(s, [StateOf(s) EXCEPT !.risk_history = Some(text)])

(* ------------------------------ callback inputs ----------------------- *)

\* n_clicks lists of the rendered buttons: a button never clicked, two
\* buttons of which the second was clicked.
ClickLists == {<<None>>, <<None, Some(1)>>}

\* ctx.triggered of the click callback: nothing, a symbol button of some
\* index (possibly of a registry that has changed since), another component.
ClickTriggers ==
    {None} \cup {Some(ButtonPropId("symbol-btn", i)) : i \in (0 - 1)..MaxSymbols}
           \cup {Some(ButtonPropId("chart-btn", 0))}

NavIds ==
    {"nav-market", "nav-social", "nav-news", "nav-fundamentals",
     "nav-researcher", "nav-research-mgr", "nav-trader", "nav-risk-agg",
     "nav-risk-cons", "nav-risk-neut", "nav-final"}

\* ctx.triggered of switch_tab: nothing, a navigation link, something else.
NavTriggers ==
    {None} \cup {Some(<<n, ".", "n_clicks">>) : n \in NavIds \cup {"nav-help"}}

(* ------------------------------ specifications ------------------------ *)

\* After construction: no symbol registered, no page chosen.
Init ==
    /\ symbol_states = <<>>
    /\ current_symbol = None
    /\ report_page = None
    /\ ret = Idle
    /\ last_click = None

\* The registry and the browser move; every callback may run at any time.
Next ==
    \/ \E s \in Symbols : AddSymbol(s, None)
    \/ \E s \in Symbols : AddSymbol(s, Some(InitState(s)))
    \/ \E s \in Symbols : RemoveSymbol(s)
    \/ \E p \in PageInputs : SetPage(p)
    \/ update_report_symbol_pagination
    \/ \E cl \in ClickLists, tr \in ClickTriggers :
            handle_report_symbol_click(cl, tr)
    \/ update_researcher_debate
    \/ update_risk_debate
    \/ \E v \in Verdicts : update_tabs_content(v)
    \/ update_decision_summary
    \/ update_report_display_text
    \/ \E tr \in NavTriggers : switch_tab(tr)

Spec == Init /\ [][Next]_vars

\* One symbol is registered and selected; the pipeline fills in its state
\* while the report callbacks poll it.
InitReports ==
    /\ symbol_states =
            <<[key |-> SymbolPool[1], value |-> Some(InitState(SymbolPool[1]))]>>
    /\ current_symbol = Some(SymbolPool[1])
    /\ report_page = Some(1)
    /\ ret = Idle
    /\ last_click = None

NextReports ==
    \/ \E s \in Symbols, k \in ReportKeys, t \in Texts : WriteReport(s, k, t)
    \/ \E s \in Symbols, a \in Analysts, st \in Statuses : SetStatus(s, a, st)
    \/ \E s \in Symbols : SetComplete(s)
    \/ \E s \in Symbols, r \in ResultDicts : SetResults(s, r)
    \/ \E s \in Symbols, t \in ActionTexts : SetRecommended(s, t)
    \/ \E s \in Symbols, t \in HistoryTexts : WriteHistory(s, t)
    \/ \E v \in Verdicts : update_tabs_content(v)
    \/ update_decision_summary

SpecReports == InitReports /\ [][NextReports]_vars

(* -------------------------------- claims ------------------------------ *)

ComposerOps ==
    {"update_researcher_debate", "update_risk_debate", "update_tabs_content",
     "update_decision_summary", "update_report_display_text"}

\* The last step was a call of a page-driven composer.  The store is then
\* the one the call read: every step of the environment resets ret.
ComposerCalled == ret.op \in ComposerOps

\* The page of the call lies within the registry the call read.
PageInRange ==
    /\ ret.page # None
    /\ 1 <= Val(ret.page)
    /\ Val(ret.page) <= Len(symbol_states)

\* C1: every page-driven composer resolves a symbol if and only if
\* 1 <= active_page <= len(symbols), the symbol then being
\* symbols[active_page-1]; whatever the page (zero and negatives too), the
\* list is never subscripted outside 0..len(symbols)-1.
C1_PageResolvesIffInRange ==
    ComposerCalled =>
        /\ (ret.symbol # None) <=> PageInRange
        /\ ret.symbol # None =>
                ret.symbol = Some(Keys(symbol_states)[Val(ret.page)])
        /\ ret.index # None =>
                /\ 0 <= Val(ret.index)
                /\ Val(ret.index) <= Len(symbol_states) - 1

\* The out-of-range message a composer is meant to return.
OutOfRangeOutput(op) ==
    LET msg == <<"Page index out of range. Please refresh or restart analysis.">>
        panel == [type |-> "Markdown", children |-> msg]
    IN  CASE op = "update_tabs_content" ->
                <<panel, panel, panel, panel, panel, panel, panel, panel>>
          [] op = "update_decision_summary" -> <<msg>>
          [] op = "update_report_display_text" -> << <<"Invalid page">> >>
          [] OTHER -> <<panel>>

\* C2: with a non-empty registry and active_page > len(symbols), every
\* page-driven composer returns its out-of-range message, does not raise,
\* does not subscript the symbol list and calls neither get_state nor a
\* debate renderer.
C2_OutOfRangeMessage ==
    (/\ ComposerCalled
     /\ symbol_states # <<>>
     /\ ret.page # None
     /\ Val(ret.page) > Len(symbol_states))
    => /\ ret.out = OutOfRangeOutput(ret.op)
       /\ ~ret.raised
       /\ ret.index = None
       /\ ret.calls = {}

\* C2 witness: the registry shrank to one symbol under page 2 and the
\* decision summary was asked for.
C2_Witness ==
    /\ ret.op = "update_decision_summary"
    /\ Len(symbol_states) = 1
    /\ ret.page = Some(2)
    /\ ret.out = OutOfRangeOutput("update_decision_summary")

\* The call of update_tabs_content left through an early exit: nothing to
\* show yet, page out of range, or no state for the symbol.
TabsEarlyExit ==
    \/ symbol_states = <<>>
    \/ ret.page = None
    \/ Val(ret.page) = 0
    \/ Val(ret.page) > Len(symbol_states)
    \/ /\ ret.symbol # None
       /\ get_state(symbol_states, Val(ret.symbol)) = None

\* C3: update_tabs_content returns exactly eight outputs for every input and
\* every store, and in each early exit all eight carry the same placeholder.
C3_AlwaysEightOutputs ==
    ret.op = "update_tabs_content" =>
        /\ Len(ret.out) = 8
        /\ TabsEarlyExit =>
                \A i \in 1..Len(ret.out) :
                    /\ ret.out[i] = ret.out[1]
                    /\ ret.out[i].children \in
                        {<<"No analysis available yet.">>,
                         <<"Page index out of range. Please refresh or restart analysis.">>,
                         <<"No data for this symbol.">>}

\* The last step was a call of op that got as far as the symbol's state.
Rendered(op) ==
    /\ ret.op = op
    /\ ret.symbol # None
    /\ get_state(symbol_states, Val(ret.symbol)) # None

\* The state that call read.
CallState == Val(get_state(symbol_states, Val(ret.symbol)))

\* The five analyst slots in output order: report key, analyst, slot name.
AnalystSlots ==
    <<[key |-> "market_report", analyst |-> "Market Analyst",
       name |-> "Market Report"],
      [key |-> "sentiment_report", analyst |-> "Social Analyst",
       name |-> "Sentiment Report"],
      [key |-> "news_report", analyst |-> "News Analyst",
       name |-> "News Report"],
      [key |-> "fundamentals_report", analyst |-> "Fundamentals Analyst",
       name |-> "Fundamentals Report"],
      [key |-> "macro_report", analyst |-> "Macro Analyst",
       name |-> "Macro Report"]>>

SlotStatus(i) == CallState.agent_statuses[AnalystSlots[i].analyst]

SlotContent(i) == CallState.current_reports[AnalystSlots[i].key]

C5_InProgressPlaceholder ==
    Rendered("update_tabs_content") =>
        \A i \in 1..Len(AnalystSlots) :
            /\ SlotStatus(i) = Some("in_progress") =>
                    ret.out[i].children =
                        <<":arrows_counterclockwise: ", AnalystSlots[i].name,
                          " - Analysis in progress...">>
            /\ ret.out[i] =
                    create_markdown_content(
                        SlotText(AnalystSlots[i].key, SlotStatus(i),
                                 SlotContent(i), ret.verdict),
                        DefaultMessage)

\* C5 witness: slot 2 is in progress with text already written, while
\* slot 1 is completed and shows its report.
C5_Witness ==
    /\ Rendered("update_tabs_content")
    /\ SlotStatus(2) = Some("in_progress")
    /\ SlotContent(2) = Some(<<"x">>)
    /\ ret.out[2].children =
            <<":arrows_counterclockwise: ", "Sentiment Report",
              " - Analysis in progress...">>

\* Position of the 'Current Decision' line in a text, or past its end.
CurrentDecisionAt(text) ==
    IF \E k \in 1..Len(text) :
            text[k] = "**Current Decision:** Based on completed analysis"
    THEN CHOOSE k \in 1..Len(text) :
            text[k] = "**Current Decision:** Based on completed analysis"
    ELSE Len(text) + 1

\* C6: while analysis_complete is false, update_decision_summary never
\* returns the 'Final Decision for <ticker>' form, and a final report that
\* is already written shows only as the 'Current Decision' of the partial
\* summary.
C6_NoFinalBeforeComplete ==
    (Rendered("update_decision_summary") /\ ~CallState.analysis_complete) =>
        LET text == ret.out[1]
            final == CallState.current_reports["final_trade_decision"]
            at == CurrentDecisionAt(text)
        IN  /\ Head(text) # "## Final Decision for "
            /\ \A k \in 1..Len(text) : text[k] # "**Full Analysis:**"
            /\ \A k \in 1..(at - 1) : text[k] \notin {"x", " ", "a", "b"}
            /\ Truthy(final) =>
                    /\ at <= Len(text)
                    /\ SubSeq(text, at + 3, Len(text)) = Val(final)

\* C6 witness: the final report is written, the flag is not yet set, and
\* the summary is the partial one.
C6_Witness ==
    /\ Rendered("update_decision_summary")
    /\ ~CallState.analysis_complete
    /\ CallState.current_reports["final_trade_decision"] = Some(<<"x">>)
    /\ Head(ret.out[1]) = "## Partial Analysis for "

\* The event is a click on the symbol button of index i.
ClickOn(i) ==
    /\ ret.op = "handle_report_symbol_click"
    /\ \E k \in 1..Len(ret.clicks) : ret.clicks[k] = Some(1)
    /\ ret.triggered =
            Some(<<"{index:", IntStr(i), ",type:", "symbol-btn", "}", ".",
                   "n_clicks">>)

\* C7: a click on the button of index i, 0 <= i < len(symbols), sets
\* current_symbol to symbols[i], returns page i+1 for both pagination
\* outputs, and returns one button per symbol with exactly the button of
\* index i active.
C7_ClickSelectsSymbol ==
    \A i \in 0..(Len(symbol_states) - 1) :
        ClickOn(i) =>
            /\ current_symbol = Some(symbol_states[i + 1].key)
            /\ ret.out[1] = [kind |-> "value", value |-> <<i + 1>>]
            /\ ret.out[2] = [kind |-> "value", value |-> <<i + 1>>]
            /\ ret.out[3].kind = "value"
            /\ LET buttons == ret.out[3].value[1].buttons
               IN  /\ Len(buttons) = Len(symbol_states)
                   /\ \A j \in 1..Len(buttons) :
                        /\ buttons[j].symbol = symbol_states[j].key
                        /\ buttons[j].index = j - 1
                        /\ buttons[j].active <=> (j - 1 = i)

\* C7 witness: the second of two symbols was clicked while the first was
\* the current one.
C7_Witness ==
    /\ Len(symbol_states) = 2
    /\ ClickOn(1)
    /\ current_symbol = Some(symbol_states[2].key)
    /\ report_page = Some(2)

\* The event of the step's click callback carries a valid index: a click
\* count, and a symbol button of the registry as the trigger.
ValidClickEvent ==
    \E i \in 0..(Len(symbol_states) - 1) :
        /\ \E k \in 1..Len(ret'.clicks) :
                ret'.clicks[k] # None /\ Val(ret'.clicks[k]) # 0
        /\ ret'.triggered =
                Some(<<"{index:", IntStr(i), ",type:", "symbol-btn", "}", ".",
                       "n_clicks">>)

\* C8: a call of handle_report_symbol_click whose event carries no valid
\* index returns no_update for all three outputs and leaves current_symbol
\* (and the page) as it was.
C8_InvalidClickIsNoOp ==
    [][(ret'.op = "handle_report_symbol_click" /\ ~ValidClickEvent) =>
            /\ ret'.out = <<[kind |-> "no_update", value |-> <<>>],
                            [kind |-> "no_update", value |-> <<>>],
                            [kind |-> "no_update", value |-> <<>>]>>
            /\ current_symbol' = current_symbol
            /\ report_page' = report_page
            /\ symbol_states' = symbol_states]_vars

\* C8 witness: a button of index 1 was clicked after the registry shrank to
\* one symbol; nothing was updated and the current symbol stayed.
C8_Witness ==
    /\ ret.op = "handle_report_symbol_click"
    /\ Len(symbol_states) = 1
    /\ ret.clicks = <<None, Some(1)>>
    /\ ret.triggered = Some(ButtonPropId("symbol-btn", 1))
    /\ ret.out[1].kind = "no_update"
    /\ current_symbol # None
    /\ Val(current_symbol) \notin KeySet(symbol_states)

RiskNavIds == {"nav-risk-agg", "nav-risk-cons", "nav-risk-neut"}

\* The navigation link that triggered the call of switch_tab, if one did.
NavTriggered(n) == ret.triggered = Some(<<n, ".", "n_clicks">>)

\* C9: switch_tab maps the three risk links to 'risk-debate', every other
\* recognised link to a tab of its own, and an absent or unrecognised
\* trigger to 'market-analysis'.
C9_TabRouting ==
    ret.op = "switch_tab" =>
        /\ (\E n \in RiskNavIds : NavTriggered(n)) =>
                ret.out = <<"risk-debate">>
        /\ (~\E n \in NavIds : NavTriggered(n)) =>
                ret.out = <<"market-analysis">>
        /\ \A n \in NavIds \ RiskNavIds :
                NavTriggered(n) =>
                    /\ ret.out # <<"risk-debate">>
                    /\ \A m \in NavIds \ {n} :
                            ret.out # <<tab_mapping_get(<<m>>)>>

\* C9 witness: the neutral-risk link led to the risk-debate tab.
C9_Witness ==
    /\ ret.op = "switch_tab"
    /\ NavTriggered("nav-risk-neut")
    /\ ret.out = <<"risk-debate">>

\* The eight artifacts tested for content: five analyst reports, research
\* manager report, trader plan, risk-debate history.
SomeArtifactNonEmpty ==
    \/ \E k \in ReportKeys \ {"final_trade_decision"} :
            Truthy(CallState.current_reports[k])
    \/ Truthy(CallState.risk_history)

FinalReportRead == CallState.current_reports["final_trade_decision"]

\* C10 as claimed: for a symbol with a state, update_decision_summary is
\* Complete when analysis_complete and the final report exists, else
\* Partial when one of the nine artifacts is non-empty, else NotStarted;
\* the output is the fixed message iff it is not Complete and none of the
\* nine artifacts is non-empty.
C10_ThreeStatesNonEmpty ==
    Rendered("update_decision_summary") =>
        LET text == ret.out[1]
            complete == CallState.analysis_complete /\ FinalReportRead # None
            partial == SomeArtifactNonEmpty \/ Truthy(FinalReportRead)
        IN  /\ complete => Head(text) = "## Final Decision for "
            /\ (~complete /\ partial) => Head(text) = "## Partial Analysis for "
            /\ (text = <<"Analysis not complete yet.">>)
                    <=> (~complete /\ ~partial)

\* C10 (amended): as claimed, except that the final decision report counts
\* towards Partial as soon as it is present (not None), even when it is
\* empty: the output is the fixed message iff the state is not Complete,
\* none of the other eight artifacts is non-empty and no final report is
\* present.
C10_ThreeStates ==
    Rendered("update_decision_summary") =>
        LET text == ret.out[1]
            complete == CallState.analysis_complete /\ FinalReportRead # None
            partial == SomeArtifactNonEmpty \/ FinalReportRead # None
        IN  /\ complete => Head(text) = "## Final Decision for "
            /\ (~complete /\ partial) => Head(text) = "## Partial Analysis for "
            /\ (text = <<"Analysis not complete yet.">>)
                    <=> (~complete /\ ~partial)

\* C10 witness: an empty final report before completion gives the partial
\* summary, not the fixed message.
C10_Witness ==
    /\ Rendered("update_decision_summary")
    /\ ~CallState.analysis_complete
    /\ FinalReportRead = Some(<<>>)
    /\ ~SomeArtifactNonEmpty
    /\ Head(ret.out[1]) = "## Partial Analysis for "

\* The text of an optional string, "" when it is None.
TextOf(o) == IF o = None THEN <<>> ELSE Val(o)

\* The last line of a text: its longest suffix without a newline.
LastLineOf(h) ==
    LET k == CHOOSE k \in 0..Len(h) :
                /\ \A j \in (k + 1)..Len(h) : h[j] # "\n"
                /\ k = 0 \/ h[k] = "\n"
    IN  SubSeq(h, k + 1, Len(h))

\* The four candidates for the current decision, in precedence order: final
\* report, last line of the risk-debate history, trader plan, research
\* manager report.
DecisionCandidates ==
    <<TextOf(FinalReportRead),
      LastLineOf(TextOf(CallState.risk_history)),
      TextOf(CallState.current_reports["trader_investment_plan"]),
      TextOf(CallState.current_reports["research_manager_report"])>>

\* C11: in the Partial state, the 'Current Decision' section is appended if
\* and only if one of the four candidates (final report, last line of the
\* risk-debate history, trader plan, research manager report) is non-empty,
\* and the text after it is exactly the first non-empty candidate.
C11_CurrentDecisionPrecedence ==
    (/\ Rendered("update_decision_summary")
     /\ Head(ret.out[1]) = "## Partial Analysis for ")
    => LET text == ret.out[1]
           at == CurrentDecisionAt(text)
           cands == DecisionCandidates
       IN  /\ (at <= Len(text)) <=> (\E c \in 1..4 : cands[c] # <<>>)
           /\ \A c \in 1..4 :
                (cands[c] # <<>> /\ \A b \in 1..(c - 1) : cands[b] = <<>>)
                => /\ text[at + 1] = "\n"
                   /\ text[at + 2] = "\n"
                   /\ SubSeq(text, at + 3, Len(text)) = cands[c]

\* C11 witness: with no final report, the last line of a two-line risk
\* debate wins over the trader plan.
C11_Witness ==
    /\ Rendered("update_decision_summary")
    /\ FinalReportRead = None
    /\ CallState.risk_history = Some(<<"a", "\n", "b">>)
    /\ CallState.current_reports["trader_investment_plan"] = Some(<<"x">>)
    /\ SubSeq(ret.out[1], CurrentDecisionAt(ret.out[1]) + 3, Len(ret.out[1]))
            = <<"b">>

\* C12: after handle_report_symbol_click accepted a click on index i, and
\* for as long as the registry's keys and their order are unchanged and
\* nothing else writes current_symbol, every render of
\* update_report_symbol_pagination is the button set the click returned
\* (exactly the button of index i active), and every page-driven composer
\* called with the page i+1 the click returned resolves current_symbol.
C12_ClickStaysSelected ==
    last_click # None =>
        LET i == Val(last_click).index IN
        /\ ret.op = "update_report_symbol_pagination" =>
                /\ ret.out = <<Val(last_click).container>>
                /\ Len(ret.out[1].buttons) = Len(symbol_states)
                /\ \A j \in 1..Len(ret.out[1].buttons) :
                        ret.out[1].buttons[j].active <=> (j - 1 = i)
        /\ (ComposerCalled /\ ret.page = Some(i + 1)) =>
                /\ ~ret.raised
                /\ ret.symbol # None
                /\ ret.symbol = current_symbol

\* C12 witness: the second of two buttons was clicked and a later polling
\* render still shows it as the active one.
C12_Witness ==
    /\ last_click # None
    /\ Val(last_click).index = 1
    /\ Len(symbol_states) = 2
    /\ ret.op = "update_report_symbol_pagination"
    /\ ret.out[1].buttons[2].active
    /\ ~ret.out[1].buttons[1].active

=============================================================================
